---- MODULE Spec2Model ----
(***************************************************************************)
(* Model of the ImageSelector component of vuepik                          *)
(* (src/src/components/ImageSelector.vue): the reactive selection state,   *)
(* the yup validation chain, the select / reset / drag handlers, the       *)
(* watcher on props.src and the preview object URLs created by rendering.  *)
(*                                                                         *)
(* Strings are TLA+ strings; a File is an opaque handle (a string) whose   *)
(* name and size are looked up in FileObj, the way state.image holds a     *)
(* reference to a File object.                                             *)
(*                                                                         *)
(* Scheduling.  A handler runs synchronously up to its end or its first    *)
(* await.  select() is async and is called without being awaited: what     *)
(* follows `await imageValidationSchema.validate(...)` is a microtask.     *)
(* The watcher on props.src and the re-render run in the scheduler flush,  *)
(* another microtask.  Microtasks run first-in first-out.  DOM events may  *)
(* be dispatched while microtasks are queued (listeners and scripts that   *)
(* dispatch events synchronously run in the same task), so a handler step  *)
(* may be taken whenever the rendered DOM offers its control.              *)
(***************************************************************************)
EXTENDS Integers, Sequences, FiniteSets, TLC

VARIABLES
    state,       \* reactive { image, touched, error }
    isDragging,  \* ref<boolean>
    props,       \* the props the component currently sees
    hostSrc,     \* the value the host has bound to :src (reaches props at the next flush)
    microtasks,  \* FIFO queue: awaiting select() continuations and the scheduler flush
    rendered,    \* what the last render put in the DOM
    live,        \* object URLs created and not yet revoked
    emitted,     \* events emitted by the last step
    last         \* the last step taken and the state it started from

vars == <<state, isDragging, props, hostSrc, microtasks, rendered, live, emitted, last>>

-----------------------------------------------------------------------------
(* Bounds *)

MaxPending == 2

-----------------------------------------------------------------------------
(* Values *)

null == "null"

KiB == 1024
MiB == 1024 * 1024

\* File objects the user can pick or drop: handle -> { name, size }.
FileObj ==
    [ photo  |-> [name |-> "photo.png",  size |-> 2 * MiB],
      ajpg   |-> [name |-> "a.jpg",      size |-> KiB],
      bgif   |-> [name |-> "b.gif",      size |-> 6 * MiB],
      cexe   |-> [name |-> "c.exe",      size |-> 10 * KiB],
      upper  |-> [name |-> "IMG.PNG",    size |-> 1],
      bigexe |-> [name |-> "big.exe",    size |-> 6 * MiB],
      nodot  |-> [name |-> "png",        size |-> 0],
      atmax  |-> [name |-> "x.tar.jpeg", size |-> 5 * MiB],
      over   |-> [name |-> "e.webp",     size |-> 5 * MiB + 1],
      dotend |-> [name |-> "notes.",     size |-> KiB] ]

AllFiles == DOMAIN FileObj

\* The files offered to the controller in Spec (ValidatorSpec offers AllFiles).
SomeFiles == {"photo", "ajpg", "cexe"}

SrcValues == {"", "https://example.com/initial-image.jpg"}

\* An optional prop that is not supplied is absent from the record.
FormatLists == { <<"png">>, <<"PNG">>, <<"jpg", "png", "gif">>, <<>> }
MaxSizes == { 0, KiB, 2 * MiB, 6 * MiB }

AllProps ==
    { [src |-> ""] }
    \cup { [src |-> "", supportedFormats |-> l] : l \in FormatLists }
    \cup { [src |-> "", maxSize |-> m] : m \in MaxSizes }
    \cup { [src |-> "", supportedFormats |-> l, maxSize |-> m] :
             l \in FormatLists, m \in MaxSizes }

\* The props of the component in Spec: the defaults (ValidatorSpec draws from
\* AllProps).
SomeProps == { [src |-> ""] }

-----------------------------------------------------------------------------
(* String helpers of the JavaScript runtime used by the validation tests *)

CharAt(s, i) == SubSeq(s, i, i)

UpperToLower ==
    [ A |-> "a", B |-> "b", C |-> "c", D |-> "d", E |-> "e", F |-> "f", G |-> "g",
      H |-> "h", I |-> "i", J |-> "j", K |-> "k", L |-> "l", M |-> "m", N |-> "n",
      O |-> "o", P |-> "p", Q |-> "q", R |-> "r", S |-> "s", T |-> "t", U |-> "u",
      V |-> "v", W |-> "w", X |-> "x", Y |-> "y", Z |-> "z" ]

RECURSIVE toLowerCase(_)
toLowerCase(s) ==
    IF Len(s) = 0 THEN ""
    ELSE LET c == CharAt(s, 1)
         IN (IF c \in DOMAIN UpperToLower THEN UpperToLower[c] ELSE c)
            \o toLowerCase(SubSeq(s, 2, Len(s)))

\* s.split('.'): the segments between the dots, at least one.
RECURSIVE split(_, _, _)
split(s, i, cur) ==
    IF i > Len(s) THEN <<cur>>
    ELSE IF CharAt(s, i) = "." THEN <<cur>> \o split(s, i + 1, "")
    ELSE split(s, i + 1, cur \o CharAt(s, i))

\* arr.pop() of a non-empty array: its last element.
pop(arr) == arr[Len(arr)]

\* arr.includes(x)
includes(arr, x) == \E i \in 1..Len(arr) : arr[i] = x

\* arr.join(', ')
RECURSIVE join(_)
join(arr) ==
    IF Len(arr) = 0 THEN ""
    ELSE IF Len(arr) = 1 THEN arr[1]
    ELSE arr[1] \o ", " \o join(Tail(arr))

-----------------------------------------------------------------------------
(* Number formatting used by the size message *)

TwoDigits(n) == IF n < 10 THEN "0" \o ToString(n) ELSE ToString(n)

\* (bytes / 1024 / 1024).toFixed(2): the quotient is exact in binary floating
\* point, and toFixed rounds the exact value to two decimals, ties upward.
toFixed2(bytes) ==
    LET hundredths == (bytes * 100 + MiB \div 2) \div MiB
    IN ToString(hundredths \div 100) \o "." \o TwoDigits(hundredths % 100)

\* The decimal digits of rem / MiB after the point, by long division.  The
\* expansion is finite because MiB is a power of two.
RECURSIVE fractionDigits(_)
fractionDigits(rem) ==
    IF rem = 0 THEN ""
    ELSE ToString((rem * 10) \div MiB) \o fractionDigits((rem * 10) % MiB)

\* String(bytes / 1024 / 1024): the exact decimal expansion, which is what
\* Number-to-string conversion prints for the quotients used here (at least
\* 1e-6, at most 17 significant digits).
mbToString(bytes) ==
    IF bytes % MiB = 0 THEN ToString(bytes \div MiB)
    ELSE ToString(bytes \div MiB) \o "." \o fractionDigits(bytes % MiB)

-----------------------------------------------------------------------------
(* The yup schema: image: mixed().test(fileFormat).test(fileSize).required() *)

validImageFormats == <<"jpg", "jpeg", "png", "webp", "gif">>

DefaultMaxSize == 5 * 1024 * 1024

Pass == [ok |-> TRUE, message |-> ""]
ValidationError(msg) == [ok |-> FALSE, message |-> msg]

\* props.supportedFormats || validImageFormats  (an array, even empty, is truthy)
allowedFormats(p) ==
    IF "supportedFormats" \in DOMAIN p THEN p.supportedFormats ELSE validImageFormats

\* value.name.split('.').pop()?.toLowerCase()
fileExtension(value) == toLowerCase(pop(split(FileObj[value].name, 1, "")))

isImageFormat(value) == includes(validImageFormats, fileExtension(value))

isAllowedFormat(value, p) ==
    IF fileExtension(value) # "" THEN includes(allowedFormats(p), fileExtension(value))
    ELSE TRUE

fileFormat(value, p) ==
    IF ~isImageFormat(value) THEN
        ValidationError("Unsupported file format: ." \o fileExtension(value)
            \o ". Supported formats are: " \o join(validImageFormats) \o ".")
    ELSE IF ~isAllowedFormat(value, p) THEN
        ValidationError("Unsupported file format: ." \o fileExtension(value)
            \o ". Allowed formats are: " \o join(allowedFormats(p)) \o ".")
    ELSE Pass

\* props.maxSize || 5 * 1024 * 1024  (undefined and 0 are falsy)
maxFileSize(p) ==
    IF "maxSize" \in DOMAIN p /\ p.maxSize # 0 THEN p.maxSize ELSE DefaultMaxSize

fileSize(value, p) ==
    IF FileObj[value].size > maxFileSize(p) THEN
        ValidationError("File size is too large: " \o toFixed2(FileObj[value].size)
            \o "MB. Maximum allowed size is " \o mbToString(maxFileSize(p)) \o "MB.")
    ELSE Pass

validate_sizeFirst(file, p) ==
    LET size == fileSize(file, p)
    IN IF ~size.ok THEN size ELSE fileFormat(file, p)

\* imageValidationSchema.validate({ image: file }) with yup's default
\* abortEarly: the tests run in the order they were added and the first error
\* rejects the promise; required() passes because file is never null here.
validate(file, p) ==
    LET format == fileFormat(file, p)
    IN IF ~format.ok THEN format ELSE fileSize(file, p)

-----------------------------------------------------------------------------
(* State *)

EmptyState == [image |-> null, touched |-> FALSE, error |-> null]

\* The select() calls still awaiting their validation.
RECURSIVE pending(_)
pending(q) ==
    IF q = <<>> THEN 0
    ELSE (IF Head(q).job = "select" THEN 1 ELSE 0) + pending(Tail(q))

\* The record of a step: the handler that ran, the file it was about, the
\* selection state it started from and the number of select() calls that were
\* awaiting their validation when it ran.
Step(op, file) ==
    [op |-> op, file |-> file, pre |-> state, pending |-> pending(microtasks)]

SelectJob(file, p) == [job |-> "select", file |-> file, result |-> validate(file, p)]
FlushJob == [job |-> "flush", file |-> null, result |-> Pass]

\* A change of a reactive value the template reads queues the scheduler flush
\* (one microtask), unless one is already queued.
queueFlush(q, changed) ==
    IF changed /\ ~includes(q, FlushJob) THEN Append(q, FlushJob) ELSE q

\* The file list of a change event of <input type="file">, which has no
\* `multiple` attribute: at most one file.
InputFiles(F) == {<<>>} \cup { <<f>> : f \in F }

\* The file list of a drop: any number of files (here at most two).
DroppedFiles(F) ==
    InputFiles(F) \cup { pair \in { <<f, g>> : f \in F, g \in F } : pair[1] # pair[2] }

\* The file select() extracts: input.files[0] / dataTransfer.files[0], or null.
firstFile(files) == IF Len(files) > 0 THEN files[1] ELSE null

Init ==
    /\ state = EmptyState
    /\ isDragging = FALSE
    /\ props \in { [p EXCEPT !.src = s] : p \in SomeProps, s \in SrcValues }
    /\ hostSrc = props.src
    /\ microtasks = <<>>
    /\ rendered = [resetBtn |-> FALSE, img |-> props.src]
    /\ live = {}
    /\ emitted = <<>>
    /\ last = [op |-> "mount", file |-> null, pre |-> EmptyState, pending |-> 0]

-----------------------------------------------------------------------------
(* Object URLs *)

\* URL.createObjectURL returns a URL no earlier call returned.  A URL is
\* identified here by its file and by the call site that created it: the
\* URLs that successive renders create for one file are not told apart, the
\* URL that reset() creates is distinct from all of them.
ObjectURL(file, site) == [file |-> file, site |-> site]

createObjectURL(urls, file, site) == urls \cup {ObjectURL(file, site)}

revokeObjectURL(urls, url) == urls \ {url}

\* previewUrl(): what <img :src> shows
previewUrl(s, src) ==
    IF s.image # null THEN "blob:" \o s.image ELSE src

-----------------------------------------------------------------------------
(* Handlers *)

\* select(event) up to its await: extract the file, return if there is none,
\* else start the validation; what follows the await is queued as a microtask.
select(files, q) ==
    IF firstFile(files) = null THEN q
    ELSE Append(q, SelectJob(firstFile(files), props))

\* @change of the file input
handleChange(F) ==
    \E files \in InputFiles(F) :
        /\ pending(microtasks) < MaxPending
        /\ microtasks' = select(files, microtasks)
        /\ emitted' = <<>>
        /\ last' = Step("change", firstFile(files))
        /\ UNCHANGED <<state, isDragging, props, hostSrc, rendered, live>>

\* @drop.prevent on the wrapper
handleDrop(F) ==
    \E files \in DroppedFiles(F) :
        /\ pending(microtasks) < MaxPending
        /\ isDragging' = FALSE
        /\ microtasks' = select(files, queueFlush(microtasks, isDragging))
        /\ emitted' = <<>>
        /\ last' = Step("drop", firstFile(files))
        /\ UNCHANGED <<state, props, hostSrc, rendered, live>>

\* The try block after the await: validate() resolved.
accept_untouched(s, file) == [image |-> file, touched |-> s.touched, error |-> null]

accept(s, file) == [image |-> file, touched |-> TRUE, error |-> null]

\* The catch block: validate() rejected with a yup.ValidationError.
reject_clears(s, message) == [image |-> null, touched |-> FALSE, error |-> message]

reject(s, message) == [s EXCEPT !.error = message]

\* The emit() call of the try block or of the catch block.
emits_silentError(job) ==
    IF job.result.ok THEN << <<"select", job.file>> >> ELSE <<>>

emits(job) ==
    IF job.result.ok THEN << <<"select", job.file>> >>
    ELSE << <<"error", job.result.message>> >>

\* select(event) after its await.
selectContinue ==
    /\ microtasks # <<>>
    /\ Head(microtasks).job = "select"
    /\ LET job == Head(microtasks)
           next == IF job.result.ok THEN accept(state, job.file)
                   ELSE reject(state, job.result.message)
       IN /\ state' = next
          /\ emitted' = emits(job)
          /\ microtasks' = queueFlush(Tail(microtasks),
                               next.image # state.image \/ next.error # state.error)
          /\ last' = Step(IF job.result.ok THEN "accepted" ELSE "rejected", job.file)
    /\ UNCHANGED <<isDragging, props, hostSrc, rendered, live>>

\* The three assignments of reset().
reset_keepsError(s) == [s EXCEPT !.image = null, !.touched = FALSE]

reset(s) == [image |-> null, touched |-> FALSE, error |-> null]

\* handleReset() and the reset() it calls; the reset control exists only in a
\* DOM rendered while state.image was set.
handleReset ==
    /\ rendered.resetBtn
    /\ isDragging' = FALSE
    /\ live' = IF state.image # null
               THEN revokeObjectURL(createObjectURL(live, state.image, "reset"),
                                    ObjectURL(state.image, "reset"))
               ELSE live
    /\ state' = reset(state)
    /\ emitted' = << <<"reset">> >>
    /\ microtasks' = queueFlush(microtasks,
                        isDragging \/ state.image # null \/ state.error # null)
    /\ last' = Step("reset", null)
    /\ UNCHANGED <<props, hostSrc, rendered>>

\* @dragenter / @dragover (true), @dragleave (false)
handleDrag ==
    \E isOver \in BOOLEAN :
        /\ isDragging' = isOver
        /\ microtasks' = queueFlush(microtasks, isOver # isDragging)
        /\ emitted' = <<>>
        /\ last' = Step("drag", null)
        /\ UNCHANGED <<state, props, hostSrc, rendered, live>>

\* The host binds another value to :src; the component sees it when the
\* scheduler flush re-renders the parent.
setSrc ==
    \E s \in SrcValues :
        /\ s # hostSrc
        /\ hostSrc' = s
        /\ microtasks' = queueFlush(microtasks, TRUE)
        /\ emitted' = <<>>
        /\ last' = Step("setSrc", null)
        /\ UNCHANGED <<state, isDragging, props, rendered, live>>

\* watch(() => props.src, ...): the callback
watchSrc_resets(newSrc, s) == IF newSrc # "" THEN EmptyState ELSE s

watchSrc(newSrc, s) == IF newSrc # "" THEN [s EXCEPT !.image = null] ELSE s

\* The scheduler flush: the new props arrive, the watcher runs if props.src
\* changed, and the template is rendered; <img :src="previewUrl()"> is
\* rendered when state.image || props.src, the reset control when state.image.
flush ==
    /\ microtasks # <<>>
    /\ Head(microtasks).job = "flush"
    /\ LET next == IF hostSrc # props.src THEN watchSrc(hostSrc, state) ELSE state
       IN /\ props' = [props EXCEPT !.src = hostSrc]
          /\ state' = next
          /\ live' = IF next.image # null
                     THEN createObjectURL(live, next.image, "previewUrl")
                     ELSE live
          /\ rendered' = [resetBtn |-> next.image # null,
                          img |-> previewUrl(next, hostSrc)]
    /\ microtasks' = Tail(microtasks)
    /\ emitted' = <<>>
    /\ last' = Step("flush", null)
    /\ UNCHANGED <<isDragging, hostSrc>>

Next ==
    \/ handleChange(SomeFiles)
    \/ handleDrop(SomeFiles)
    \/ selectContinue
    \/ handleReset
    \/ handleDrag
    \/ setSrc
    \/ flush

Spec == Init /\ [][Next]_vars

-----------------------------------------------------------------------------
(* The validator alone: one selection on a freshly mounted component, for    *)
(* every set of props and every file.                                        *)

ValidatorInit ==
    /\ state = EmptyState
    /\ isDragging = FALSE
    /\ props \in AllProps
    /\ hostSrc = props.src
    /\ microtasks = <<>>
    /\ rendered = [resetBtn |-> FALSE, img |-> props.src]
    /\ live = {}
    /\ emitted = <<>>
    /\ last = [op |-> "mount", file |-> null, pre |-> EmptyState, pending |-> 0]

firstSelection ==
    /\ state = EmptyState
    /\ microtasks = <<>>
    /\ handleChange(AllFiles)

ValidatorNext ==
    \/ firstSelection
    \/ selectContinue
    \/ flush

ValidatorSpec == ValidatorInit /\ [][ValidatorNext]_vars

-----------------------------------------------------------------------------
(* Properties *)

Settled == last.op \in {"accepted", "rejected"}
Silent == last.op \in {"change", "drop", "drag", "setSrc", "flush"}

\* C1 (as stated): in every reachable state, if state.image is non-null then
\* state.touched is true and state.error is null.
C1_ImageImpliesTouchedNoError ==
    state.image # null => state.touched /\ state.error = null

\* C1 (amended): in every reachable state, if state.image is non-null then
\* state.touched is true; state.error is null in the state an accepted
\* selection or a reset leaves, and is non-null beside a selected file only
\* as the message of a candidate the validator rejects.
C1_ImageImpliesTouched ==
    /\ state.image # null => state.touched
    /\ last.op \in {"accepted", "reset"} => state.error = null
    /\ state.image # null /\ state.error # null =>
           \E f \in SomeFiles : validate(f, props) = ValidationError(state.error)

C1_Witness ==
    state.image # null /\ state.touched /\ state.error # null

\* C2: a selection whose file the validator accepts emits exactly `select`
\* with that file, one it rejects emits exactly `error` with the rejection
\* reason, a reset emits exactly `reset`, and no other step (an input event
\* without a file among them) emits anything or changes the selection state.
C2_OneEventPerAction ==
    /\ Len(emitted) <= 1
    /\ Settled =>
           /\ Len(emitted) = 1
           /\ emitted[1][1] = "select" <=> validate(last.file, props).ok
           /\ validate(last.file, props).ok => emitted[1] = <<"select", last.file>>
           /\ ~validate(last.file, props).ok =>
                  emitted[1] = <<"error", validate(last.file, props).message>>
    /\ last.op = "reset" => emitted = << <<"reset">> >>
    /\ Silent \/ last.op = "mount" => emitted = <<>>
    /\ last.op \in {"change", "drop"} /\ last.file = null =>
           state = last.pre /\ pending(microtasks) = last.pending

C2_Witness ==
    /\ last.op = "rejected"
    /\ emitted = << <<"error", validate(last.file, props).message>> >>

\* C3: when the validator rejects the candidate with reason r, select leaves
\* state.image and state.touched as they were (here: as the step that handles
\* the rejection found them, and the step that started the validation leaves
\* the whole state alone), sets state.error to r and emits `error` with r.
C3_RejectionKeepsSelection ==
    /\ last.op = "rejected" =>
           /\ ~validate(last.file, props).ok
           /\ state.image = last.pre.image
           /\ state.touched = last.pre.touched
           /\ state.error = validate(last.file, props).message
           /\ emitted = << <<"error", state.error>> >>
    /\ last.op \in {"change", "drop"} => state = last.pre

C3_Witness ==
    /\ last.op = "rejected"
    /\ last.pre.image # null
    /\ state.image = last.pre.image
    /\ state.error # null

\* C4: from any state, the already-empty one and one holding an error
\* included, reset leaves {image: null, touched: false, error: null} and
\* emits exactly one `reset`; a reset of the state a reset left changes
\* nothing.
C4_ResetToEmpty ==
    last.op = "reset" =>
        /\ state = EmptyState
        /\ emitted = << <<"reset">> >>
        /\ last.pre = EmptyState => state = last.pre

C4_Witness ==
    last.op = "reset" /\ last.pre = EmptyState /\ state = EmptyState

\* C5: every object URL created for a file is revoked by the time the file
\* has been cleared by a reset or replaced by another accepted file.
C5_NoLeakedPreviewUrl ==
    /\ last.op = "reset" => live = {}
    /\ last.op = "accepted" => \A url \in live : url.file = state.image

Range(arr) == { arr[i] : i \in 1..Len(arr) }

Contains(str, sub) ==
    \E i \in 1..(Len(str) - Len(sub) + 1) : SubSeq(str, i, i + Len(sub) - 1) = sub

BuiltInSet == {"jpg", "jpeg", "png", "webp", "gif"}

\* C6: the validator reports the earliest failing rule in the order intrinsic
\* format, policy format, size: a candidate whose extension is outside the
\* built-in set is rejected citing the built-in set whatever list is
\* configured; otherwise one outside the supplied list is rejected citing that
\* list; otherwise one over the maximum is rejected for its size; otherwise it
\* is accepted.
C6_FirstFailingRule ==
    Settled =>
        LET ext == fileExtension(last.file)
            intrinsicFails == ext \notin BuiltInSet
            policyFails == /\ "supportedFormats" \in DOMAIN props
                           /\ ext \notin Range(props.supportedFormats)
            sizeFails == FileObj[last.file].size > maxFileSize(props)
        IN IF intrinsicFails THEN
               /\ last.op = "rejected"
               /\ Contains(state.error,
                           "Supported formats are: jpg, jpeg, png, webp, gif.")
           ELSE IF policyFails THEN
               /\ last.op = "rejected"
               /\ Contains(state.error,
                           "Allowed formats are: " \o join(props.supportedFormats) \o ".")
           ELSE IF sizeFails THEN
               /\ last.op = "rejected"
               /\ Contains(state.error, "File size is too large: ")
           ELSE last.op = "accepted"

\* big.exe (6 MiB) fails the format rule and the size rule, under a configured
\* list: the message is the built-in format message.
C6_Witness ==
    /\ last.op = "rejected"
    /\ last.file = "bigexe"
    /\ "supportedFormats" \in DOMAIN props
    /\ FileObj[last.file].size > maxFileSize(props)
    /\ state.error =
           "Unsupported file format: .exe. Supported formats are: jpg, jpeg, png, webp, gif."

\* C7: for every maxSize the host supplies (any non-negative integer) and
\* every candidate with a recognised, allowed extension, the validator rejects
\* if and only if the size in bytes is strictly greater than that value; the
\* default of 5 * 1024 * 1024 applies only when no maxSize is supplied.
C7_SizeRuleUsesSuppliedMax ==
    Settled /\ isImageFormat(last.file) /\ isAllowedFormat(last.file, props) =>
        LET max == IF "maxSize" \in DOMAIN props THEN props.maxSize
                   ELSE 5 * 1024 * 1024
        IN last.op = "rejected" <=> FileObj[last.file].size > max

\* C8: the supplied allowed-extensions list is a case-insensitive set: a
\* candidate whose extension is in the built-in set is rejected citing the
\* supplied list if and only if a list is supplied and the extension, compared
\* without regard to case, is not a member of it.
C8_PolicyCaseInsensitive ==
    Settled /\ fileExtension(last.file) \in BuiltInSet =>
        LET citesList == /\ last.op = "rejected"
                         /\ Contains(state.error, "Allowed formats are: ")
            member == /\ "supportedFormats" \in DOMAIN props
                      /\ toLowerCase(fileExtension(last.file))
                             \in { toLowerCase(x) : x \in Range(props.supportedFormats) }
        IN citesList <=> ("supportedFormats" \in DOMAIN props /\ ~member)

\* C9 (as stated): only select and reset change the selection state: a change
\* of src by the host, the watcher and render that follow it, and a drag-hover
\* toggle leave image, touched and error unchanged.
C9_OnlySelectAndResetChangeState ==
    last.op \in {"drag", "setSrc", "flush"} => state = last.pre

\* C9 (amended): besides select and reset, only the watcher on props.src
\* changes the selection state, and only by clearing image when src changed to
\* a non-empty URL; it leaves touched and error unchanged.  A drag-hover
\* toggle, the host's assignment itself and a select that has not yet passed
\* its validation leave the whole state unchanged.
C9_OnlyWatcherClearsImage ==
    /\ last.op \in {"drag", "setSrc", "change", "drop"} => state = last.pre
    /\ last.op = "flush" =>
           /\ state.touched = last.pre.touched
           /\ state.error = last.pre.error
           /\ state.image \in {last.pre.image, null}
           /\ state.image # last.pre.image => props.src # ""

C9_Witness ==
    /\ last.op = "flush"
    /\ last.pre.image # null
    /\ state.image = null
    /\ state.touched

====
